---- MODULE Spec2Model ----
(***************************************************************************)
(* A model of src/parquetDocument.ts: ParquetDocument (formatSql,          *)
(* cleanResults, runQuery, fetchMore, dispose) and the message switch of   *)
(* ParquetDocumentProvider.onMessage.                                      *)
(*                                                                         *)
(* Strings are sequences.  The text typed by the user is a sequence of     *)
(* one-character strings; the literal pieces the code concatenates around  *)
(* it ("EXPLAIN\n", "SELECT * FROM (\n", ...) are single elements.          *)
(*                                                                         *)
(* The embedded engine (duckdb) is the environment.  It is deterministic:  *)
(* the outcome of db.all(stmt) is a function of the statement text and of  *)
(* the file's rows.  In the user's text "q" stands for a query over the    *)
(* view, "x" for a reference the binder rejects, "z" for an expression     *)
(* that fails only when rows are computed, ";" and " " for themselves.     *)
(***************************************************************************)
EXTENDS Integers, Sequences, FiniteSets, TLC

VARIABLES
    opened,     \* opened[d]: the (uri, backupId) openCustomDocument was called with
    uri,        \* uri[d]: the _uri of Document d (documents are numbered as created)
    docState,   \* docState[d]: "Open" | "Disposed"
    db,         \* db[d]: the Document's _db: the handle, its view, the file it reads
    disposed,   \* disposed[d]: number of times _onDidDispose fired
    disposeCalls, \* disposeCalls[d]: number of calls of dispose()
    delivered,  \* delivered[d]: notifications a subscribed listener received
    panels,     \* panels[p]: the Document the p-th resolved webview panel is bound to
    table,      \* table[path]: rows of the file at path
    requests,   \* messages received by onMessage, in order; index = request id
    origin,     \* origin[id]: the (document, panel) onMessage was called with
    calls,      \* db.all calls in flight: [id, stage, stmt]
    executed,   \* executed[id]: the statements handed to db.all for request id
    ranOn,      \* ranOn[id][i]: the handle executed[id][i] was handed to
    posted,     \* posted[id]: the messages posted for request id
    postedTo    \* postedTo[id][i]: the panel posted[id][i] was posted to

docVars ==
    <<opened, uri, docState, db, disposed, disposeCalls, delivered, panels, table>>
vars ==
    <<opened, uri, docState, db, disposed, disposeCalls, delivered, panels, table,
      requests, origin, calls, executed, ranOn, posted, postedTo>>

\* ---------------------------------------------------------------- bounds
MaxBody == 3
MaxLimit == 2
MaxOffset == 3
MaxRows == 3
MaxRequests == 2
MaxDisposeCalls == 2
MaxDocuments == 2

\* ---------------------------------------------------------------- strings
Min(a, b) == IF a < b THEN a ELSE b

Describe == <<"d", "e", "s", "c", "r", "i", "b", "e">>

\* String.prototype.toLowerCase, one character
LowerChar(c) ==
    CASE c = "D" -> "d" [] c = "E" -> "e" [] c = "S" -> "s" [] c = "C" -> "c"
      [] c = "R" -> "r" [] c = "I" -> "i" [] c = "B" -> "b" [] c = "Q" -> "q"
      [] OTHER -> c

toLowerCase(s) == [i \in 1..Len(s) |-> LowerChar(s[i])]

startsWith(s, p) == Len(s) >= Len(p) /\ SubSeq(s, 1, Len(p)) = p

\* String.prototype.trim on the model's alphabet (the only whitespace is " ")
RECURSIVE trimStart(_)
trimStart(s) == IF s # <<>> /\ Head(s) = " " THEN trimStart(Tail(s)) ELSE s

RECURSIVE trimEnd(_)
trimEnd(s) ==
    IF s # <<>> /\ s[Len(s)] = " " THEN trimEnd(SubSeq(s, 1, Len(s) - 1)) ELSE s

trim(s) == trimEnd(trimStart(s))

Chars(s) == {s[i] : i \in 1..Len(s)}

\* s.replace(c, ''): with a string pattern only the FIRST occurrence is replaced
RECURSIVE replaceFirst(_, _)
replaceFirst(s, c) ==
    IF s = <<>> THEN <<>>
    ELSE IF Head(s) = c THEN Tail(s)
    ELSE <<Head(s)>> \o replaceFirst(Tail(s), c)

\* s.replaceAll(c, ''): every occurrence
RECURSIVE replaceAll(_, _)
replaceAll(s, c) ==
    IF s = <<>> THEN <<>>
    ELSE IF Head(s) = c THEN replaceAll(Tail(s), c)
    ELSE <<Head(s)>> \o replaceAll(Tail(s), c)

\* template-literal rendering of a number
NumStr(n) == ToString(n)

WrapHead == "SELECT * FROM (\n"
WrapLimit == "\n) LIMIT "
WrapOffset == " OFFSET "
ExplainHead == "EXPLAIN\n"

\* `SELECT * FROM (\n${inner}\n) LIMIT ${limit} OFFSET ${offset}`
Wrapped(inner, limit, offset) ==
    <<WrapHead>> \o inner \o <<WrapLimit, NumStr(limit), WrapOffset, NumStr(offset)>>

\* formatSql without the describe test: every statement is wrapped
formatSqlAlwaysWraps(sql, limit, offset) == Wrapped(replaceFirst(sql, ";"), limit, offset)

\* ParquetDocument.formatSql
formatSql(sql, limit, offset) ==
    IF startsWith(toLowerCase(sql), Describe) THEN sql
    ELSE Wrapped(replaceFirst(sql, ";"), limit, offset)

\* `EXPLAIN\n${sql}`
explainSql(sql) == <<ExplainHead>> \o sql

\* ---------------------------------------------------------------- values
BigIntCell(n) == [t |-> "bigint", v |-> n]
NumberCell(n) == [t |-> "number", v |-> n]
StringCell(n) == [t |-> "string", v |-> n]

\* Number(value)
Number(cell) == NumberCell(cell.v)

\* ParquetDocument.cleanResults: every bigint cell of every row becomes a number
cleanResults(results) ==
    [i \in 1..Len(results) |->
        [k \in DOMAIN results[i] |->
            IF results[i][k].t = "bigint" THEN Number(results[i][k])
            ELSE results[i][k]]]

HasBigInt(results) ==
    \E i \in 1..Len(results) : \E k \in DOMAIN results[i] : results[i][k].t = "bigint"

\* ---------------------------------------------------------------- engine
\* What the engine's own parser takes for a DESCRIBE statement: leading
\* whitespace skipped, keywords case-insensitive.
EngineIsDescribe(t) == startsWith(toLowerCase(trimStart(t)), Describe)

ParseError(t) == ~EngineIsDescribe(t) /\ Chars(t) \cap {"q", "x", "z"} = {}
BindError(t) == "x" \in Chars(t)
RuntimeError(t) == "z" \in Chars(t)

PlanRows == <<[c1 |-> StringCell(0), c2 |-> StringCell(0)]>>
SchemaRows ==
    <<[c1 |-> StringCell(1), c2 |-> StringCell(11)],
      [c1 |-> StringCell(2), c2 |-> StringCell(12)]>>

\* the file: n rows, a BIGINT column and a DOUBLE column
DataRows(n) == [i \in 1..n |-> [c1 |-> BigIntCell(i), c2 |-> NumberCell(i)]]

\* the complete result of statement text t, were it run unbounded
FullRows(t, tbl) == IF EngineIsDescribe(t) THEN SchemaRows ELSE tbl

Ok(rows) == [ok |-> TRUE, err |-> "", rows |-> rows]
Err(text) == [ok |-> FALSE, err |-> text, rows |-> <<>>]

ParseNum(tok) == CHOOSE n \in 0..(MaxLimit + MaxOffset + 2) : NumStr(n) = tok

IsExplainStmt(stmt) == stmt # <<>> /\ stmt[1] = ExplainHead
IsWrappedStmt(stmt) == Len(stmt) >= 5 /\ stmt[1] = WrapHead
InnerOf(stmt) == SubSeq(stmt, 2, Len(stmt) - 4)
LimitOf(stmt) == ParseNum(stmt[Len(stmt) - 2])
OffsetOf(stmt) == ParseNum(stmt[Len(stmt)])

\* rows [offset, offset + limit) of rows
Page(rows, limit, offset) == SubSeq(rows, offset + 1, Min(offset + limit, Len(rows)))

\* db.all(stmt, cb): the (err, res) the engine hands to cb
EngineAll(stmt, tbl) ==
    IF IsExplainStmt(stmt) THEN
        \* the validation pass binds the statement and computes no rows
        IF ParseError(Tail(stmt)) THEN Err("Parser Error")
        ELSE IF BindError(Tail(stmt)) THEN Err("Catalog Error")
        ELSE Ok(PlanRows)
    ELSE IF IsWrappedStmt(stmt) THEN
        \* a subquery holds one statement: a semicolon inside it is a syntax error
        IF ";" \in Chars(InnerOf(stmt)) \/ ParseError(InnerOf(stmt)) THEN Err("Parser Error")
        ELSE IF BindError(InnerOf(stmt)) THEN Err("Catalog Error")
        ELSE IF RuntimeError(InnerOf(stmt)) THEN Err("Conversion Error")
        ELSE Ok(Page(FullRows(InnerOf(stmt), tbl), LimitOf(stmt), OffsetOf(stmt)))
    ELSE
        IF ParseError(stmt) THEN Err("Parser Error")
        ELSE IF BindError(stmt) THEN Err("Catalog Error")
        ELSE IF RuntimeError(stmt) THEN Err("Conversion Error")
        ELSE Ok(FullRows(stmt, tbl))

\* ---------------------------------------------------------------- messages
\* IMessage literals of runQuery and fetchMore
FailureMessage(type, text) == [type |-> type, success |-> FALSE, message |-> text]
SuccessMessage(type, rows) == [type |-> type, success |-> TRUE, results |-> rows]

\* messages of the webview: {type, sql, limit, offset}
QueryMsg(sql, limit) == [type |-> "query", sql |-> sql, limit |-> limit, offset |-> 0]
MoreMsg(sql, limit, offset) == [type |-> "more", sql |-> sql, limit |-> limit, offset |-> offset]
OtherMsg == [type |-> "other", sql |-> <<>>, limit |-> 0, offset |-> 0]

Call(id, stage, stmt) == [id |-> id, stage |-> stage, stmt |-> stmt]

\* callback(msg) = this.postMessage(panel, msg) for request id
Post(id, msg) == posted' = [posted EXCEPT ![id] = Append(@, msg)]

\* ---------------------------------------------------------------- documents
\* vscode.Uri: {scheme, path}; a uri in text form is <<scheme, "://", path>>
Uri(scheme, path) == [scheme |-> scheme, path |-> path]
UriText(u) == <<u.scheme, "://", u.path>>
\* vscode.Uri.parse
UriParse(text) == [scheme |-> text[1], path |-> text[3]]
\* uri.fsPath
fsPath(u) == u.path

\* backupId: string | undefined
NoBackup == [isString |-> FALSE, text |-> <<>>]
Backup(text) == [isString |-> TRUE, text |-> text]

\* create that reads the workspace resource even when a backup exists
trueURIIgnoresBackup(u, backupId) == u

\* trueURI of ParquetDocument.create
trueURI(u, backupId) == IF backupId.isString THEN UriParse(backupId.text) ELSE u

\* one Database created by the first open and reused by every later Document
ReusedDatabase == IF db = <<>> THEN Len(db) + 1 ELSE db[Len(db)].handle

\* new duckdb.Database(':memory:'): a fresh instance, numbered as created
NewDatabase == Len(db) + 1

\* the constructor's _db: the handle with
\* CREATE VIEW data AS SELECT * FROM read_parquet('${uri.fsPath}')
OpenedDb(handle, u) ==
    [handle |-> handle, view |-> "data", file |-> fsPath(u), open |-> TRUE]

\* ParquetDocumentProvider.openCustomDocument -> ParquetDocument.create -> constructor
openCustomDocument(u, backupId) ==
    /\ Len(uri) < MaxDocuments
    /\ opened' = Append(opened, [uri |-> u, backupId |-> backupId])
    /\ uri' = Append(uri, trueURI(u, backupId))
    /\ db' = Append(db, OpenedDb(NewDatabase, trueURI(u, backupId)))
    /\ docState' = Append(docState, "Open")
    /\ disposed' = Append(disposed, 0)
    /\ disposeCalls' = Append(disposeCalls, 0)
    /\ delivered' = Append(delivered, 0)
    /\ UNCHANGED <<panels, table, requests, origin, calls, executed, ranOn, posted, postedTo>>

\* ParquetDocumentProvider.resolveCustomEditor: a panel is bound to the document;
\* its messages go to onMessage(document, webviewPanel, e)
resolveCustomEditor(document) ==
    /\ document \in 1..Len(uri)
    /\ docState[document] = "Open"
    /\ \A p \in 1..Len(panels) : panels[p] # document
    /\ panels' = Append(panels, document)
    /\ UNCHANGED <<opened, uri, docState, db, disposed, disposeCalls, delivered, table,
                   requests, origin, calls, executed, ranOn, posted, postedTo>>

\* this.db inside runQuery / fetchMore called on `document`
ThisDb(document) == db[document].handle

\* the file the view of handle h reads
FileOf(h) == db[CHOOSE d \in 1..Len(db) : db[d].handle = h].file

\* log extended to length n with x
Extend(log, n, x) == log \o [i \in 1..(n - Len(log)) |-> x]

\* ---------------------------------------------------------------- Document
\* runQuery that starts the bounded statement together with the EXPLAIN
runQueryBothAtOnce(id, sql, limit) ==
    /\ calls' = calls \cup {Call(id, "explain", explainSql(sql)),
                             Call(id, "bounded", formatSql(sql, limit, 0))}
    /\ executed' = Append(executed, <<explainSql(sql), formatSql(sql, limit, 0)>>)
    /\ posted' = Append(posted, <<>>)

\* ParquetDocument.runQuery up to its first db.all
runQuery(id, sql, limit) ==
    /\ calls' = calls \cup {Call(id, "explain", explainSql(sql))}
    /\ executed' = Append(executed, <<explainSql(sql)>>)
    /\ posted' = Append(posted, <<>>)

\* fetchMore that validates with EXPLAIN first, as runQuery does
fetchMoreValidatesFirst(id, sql, limit, offset) ==
    /\ calls' = calls \cup {Call(id, "explain", explainSql(sql))}
    /\ executed' = Append(executed, <<explainSql(sql)>>)
    /\ posted' = Append(posted, <<>>)

\* ParquetDocument.fetchMore up to its db.all
fetchMore(id, sql, limit, offset) ==
    /\ calls' = calls \cup {Call(id, "more", formatSql(sql, limit, offset))}
    /\ executed' = Append(executed, <<formatSql(sql, limit, offset)>>)
    /\ posted' = Append(posted, <<>>)

\* runQueryOnExplain that pages from offset = limit instead of 0
runQueryOnExplainWrongOffset(c, res) ==
    IF ~res.ok THEN
        /\ Post(c.id, FailureMessage("query", res.err))
        /\ calls' = calls \ {c}
        /\ UNCHANGED executed
    ELSE
        LET stmt == formatSql(requests[c.id].sql, requests[c.id].limit,
                              requests[c.id].limit) IN
        /\ calls' = (calls \ {c}) \cup {Call(c.id, "bounded", stmt)}
        /\ executed' = [executed EXCEPT ![c.id] = Append(@, stmt)]
        /\ UNCHANGED posted

\* runQueryOnExplain that stops when the Document has been disposed meanwhile
runQueryOnExplainGuarded(c, res) ==
    IF docState[origin[c.id].doc] = "Disposed" THEN
        /\ calls' = calls \ {c}
        /\ UNCHANGED <<executed, posted>>
    ELSE IF ~res.ok THEN
        /\ Post(c.id, FailureMessage("query", res.err))
        /\ calls' = calls \ {c}
        /\ UNCHANGED executed
    ELSE
        LET stmt == formatSql(requests[c.id].sql, requests[c.id].limit, 0) IN
        /\ calls' = (calls \ {c}) \cup {Call(c.id, "bounded", stmt)}
        /\ executed' = [executed EXCEPT ![c.id] = Append(@, stmt)]
        /\ UNCHANGED posted

\* runQueryOnExplain without the `return` after the failure callback
runQueryOnExplainNoReturn(c, res) ==
    LET stmt == formatSql(requests[c.id].sql, requests[c.id].limit, 0) IN
    /\ IF ~res.ok THEN Post(c.id, FailureMessage("query", res.err)) ELSE UNCHANGED posted
    /\ calls' = (calls \ {c}) \cup {Call(c.id, "bounded", stmt)}
    /\ executed' = [executed EXCEPT ![c.id] = Append(@, stmt)]

\* the callback of runQuery's EXPLAIN call
runQueryOnExplain(c, res) ==
    IF ~res.ok THEN
        /\ Post(c.id, FailureMessage("query", res.err))
        /\ calls' = calls \ {c}
        /\ UNCHANGED executed
    ELSE
        LET stmt == formatSql(requests[c.id].sql, requests[c.id].limit, 0) IN
        /\ calls' = (calls \ {c}) \cup {Call(c.id, "bounded", stmt)}
        /\ executed' = [executed EXCEPT ![c.id] = Append(@, stmt)]
        /\ UNCHANGED posted

\* runQueryOnBounded whose failure message also carries the (empty) rows
runQueryOnBoundedBothFields(c, res) ==
    /\ IF ~res.ok
       THEN Post(c.id, [type |-> "query", success |-> FALSE,
                        message |-> res.err, results |-> res.rows])
       ELSE Post(c.id, SuccessMessage("query", cleanResults(res.rows)))
    /\ calls' = calls \ {c}
    /\ UNCHANGED executed

\* the callback of runQuery's bounded call
runQueryOnBounded(c, res) ==
    /\ IF ~res.ok THEN Post(c.id, FailureMessage("query", res.err))
       ELSE Post(c.id, SuccessMessage("query", cleanResults(res.rows)))
    /\ calls' = calls \ {c}
    /\ UNCHANGED executed

\* fetchMoreOnDone that returns on an error without calling back
fetchMoreOnDoneDropsError(c, res) ==
    /\ IF ~res.ok THEN UNCHANGED posted
       ELSE Post(c.id, SuccessMessage("more", res.rows))
    /\ calls' = calls \ {c}
    /\ UNCHANGED executed

\* fetchMoreOnDone that reports an error and runs the statement again
fetchMoreOnDoneRetries(c, res) ==
    /\ IF ~res.ok THEN Post(c.id, FailureMessage("more", res.err))
       ELSE Post(c.id, SuccessMessage("more", res.rows))
    /\ calls' = IF ~res.ok THEN calls ELSE calls \ {c}
    /\ executed' = IF ~res.ok THEN [executed EXCEPT ![c.id] = Append(@, c.stmt)]
                   ELSE executed

\* the callback of fetchMore's call
fetchMoreOnDone(c, res) ==
    /\ IF ~res.ok THEN Post(c.id, FailureMessage("more", res.err))
       ELSE Post(c.id, SuccessMessage("more", res.rows))
    /\ calls' = calls \ {c}
    /\ UNCHANGED executed

\* onMessage with a default branch that answers an unrecognized kind
onMessageUnknownReplies(document, panel, message) ==
    /\ Len(requests) < MaxRequests
    /\ requests' = Append(requests, message)
    /\ origin' = Append(origin, [doc |-> document, panel |-> panel])
    /\ CASE message.type = "query" ->
              runQuery(Len(requests) + 1, message.sql, message.limit)
         [] message.type = "more" ->
              fetchMore(Len(requests) + 1, message.sql, message.limit, message.offset)
         [] OTHER ->
              /\ executed' = Append(executed, <<>>)
              /\ posted' = Append(posted, <<FailureMessage("query", "unknown message")>>)
              /\ UNCHANGED calls
    /\ ranOn' = Append(ranOn, Extend(<<>>, Len(executed'[Len(requests')]), ThisDb(document)))
    /\ postedTo' = Append(postedTo, Extend(<<>>, Len(posted'[Len(requests')]), panel))
    /\ UNCHANGED docVars

\* ParquetDocumentProvider.onMessage
onMessage(document, panel, message) ==
    /\ Len(requests) < MaxRequests
    /\ requests' = Append(requests, message)
    /\ origin' = Append(origin, [doc |-> document, panel |-> panel])
    /\ CASE message.type = "query" ->
              runQuery(Len(requests) + 1, message.sql, message.limit)
         [] message.type = "more" ->
              fetchMore(Len(requests) + 1, message.sql, message.limit, message.offset)
         [] OTHER ->
              /\ executed' = Append(executed, <<>>)
              /\ posted' = Append(posted, <<>>)
              /\ UNCHANGED calls
    /\ ranOn' = Append(ranOn, Extend(<<>>, Len(executed'[Len(requests')]), ThisDb(document)))
    /\ postedTo' = Append(postedTo, Extend(<<>>, Len(posted'[Len(requests')]), panel))
    /\ UNCHANGED docVars

\* the engine finishes call c and runs its callback
EngineComplete(c) ==
    /\ c \in calls
    /\ LET res == EngineAll(c.stmt, table[FileOf(ranOn[c.id][Len(ranOn[c.id])])]) IN
        CASE c.stage = "explain" -> runQueryOnExplain(c, res)
          [] c.stage = "bounded" -> runQueryOnBounded(c, res)
          [] c.stage = "more" -> fetchMoreOnDone(c, res)
    /\ ranOn' = [ranOn EXCEPT ![c.id] =
                    Extend(@, Len(executed'[c.id]), ThisDb(origin[c.id].doc))]
    /\ postedTo' = [postedTo EXCEPT ![c.id] =
                    Extend(@, Len(posted'[c.id]), origin[c.id].panel)]
    /\ UNCHANGED <<docVars, requests, origin>>

\* this._onDidDispose.fire(): called once per dispose(), before super.dispose();
\* the listener the host subscribed through onDidDispose is notified
fire(d) ==
    /\ disposed' = [disposed EXCEPT ![d] = @ + 1]
    /\ delivered' = [delivered EXCEPT ![d] = @ + 1]

\* Disposable.dispose of ./dispose: the Document is Disposed from now on.  It
\* holds what was passed to _register; _db never is, and nothing closes it.
\* The emitter passed to _register keeps notifying its listener afterwards,
\* as the specification's dispose-twice case states.
superDispose(d) ==
    /\ docState' = [docState EXCEPT ![d] = "Disposed"]
    /\ UNCHANGED db

\* dispose with a guard: a Document already Disposed is left alone
disposeOnce(d) ==
    /\ d \in 1..Len(uri)
    /\ disposeCalls[d] < MaxDisposeCalls
    /\ disposeCalls' = [disposeCalls EXCEPT ![d] = @ + 1]
    /\ IF docState[d] = "Disposed" THEN UNCHANGED <<disposed, delivered, docState, db>>
       ELSE fire(d) /\ superDispose(d)
    /\ UNCHANGED <<opened, uri, panels, table, requests, origin, calls, executed, ranOn,
                   posted, postedTo>>

\* dispose that also drops the statements still running
disposeCancels(d) ==
    /\ d \in 1..Len(uri)
    /\ disposeCalls[d] < MaxDisposeCalls
    /\ disposeCalls' = [disposeCalls EXCEPT ![d] = @ + 1]
    /\ fire(d)
    /\ superDispose(d)
    /\ calls' = {c \in calls : origin[c.id].doc # d}
    /\ UNCHANGED <<opened, uri, panels, table, requests, origin, executed, ranOn,
                   posted, postedTo>>

\* ParquetDocument.dispose
dispose(d) ==
    /\ d \in 1..Len(uri)
    /\ disposeCalls[d] < MaxDisposeCalls
    /\ disposeCalls' = [disposeCalls EXCEPT ![d] = @ + 1]
    /\ fire(d)
    /\ superDispose(d)
    /\ UNCHANGED <<opened, uri, panels, table, requests, origin, calls, executed, ranOn,
                   posted, postedTo>>

\* ---------------------------------------------------------------- inputs
Describe_Upper == <<"D", "E", "S", "C", "R", "I", "B", "E">>
Describe_Mixed == <<"D", "e", "s", "c", "r", "i", "b", "e">>

BodyChars == {"q", "x", "z", ";"}
RECURSIVE SeqsUpTo(_, _)
SeqsUpTo(S, n) ==
    IF n = 0 THEN {<<>>}
    ELSE SeqsUpTo(S, n - 1) \cup {Append(s, c) : s \in SeqsUpTo(S, n - 1), c \in S}

Prefixes == {<<>>, <<" ">>, Describe, Describe_Upper, Describe_Mixed, <<" ">> \o Describe}
SqlInputs == {p \o b : p \in Prefixes, b \in SeqsUpTo(BodyChars, MaxBody)}
Limits == 1..MaxLimit
Offsets == 0..MaxOffset

\* the statements the protocol specification sends
SqlSamples ==
    {<<"q">>, <<"x">>, <<"z">>, Describe \o <<" ", "q">>}
SampleMessages ==
    {QueryMsg(s, 2) : s \in SqlSamples}
        \cup {MoreMsg(s, 2, 1) : s \in SqlSamples}
        \cup {OtherMsg}

\* ---------------------------------------------------------------- files
OriginalA == Uri("file", "/a")
OriginalB == Uri("file", "/b")
BackupUri == Uri("file", "/bak")
Paths == {"/a", "/b", "/bak"}

\* the files: n rows at /a, one fewer at /b, at most one in the backup
Files(n) ==
    [p \in Paths |->
        DataRows(IF p = "/a" THEN n ELSE IF p = "/b" THEN (IF n > 0 THEN n - 1 ELSE 0)
                 ELSE Min(n, 1))]

\* ---------------------------------------------------------------- Spec
\* after openCustomDocument(OriginalA, {}) and resolveCustomEditor: one
\* Document, one handle, the view over the file, one panel
InitDocument ==
    /\ opened = <<[uri |-> OriginalA, backupId |-> NoBackup]>>
    /\ uri = <<OriginalA>>
    /\ docState = <<"Open">>
    /\ db = <<OpenedDb(1, OriginalA)>>
    /\ disposed = <<0>>
    /\ disposeCalls = <<0>>
    /\ delivered = <<0>>
    /\ panels = <<1>>
    /\ requests = <<>>
    /\ origin = <<>>
    /\ calls = {}
    /\ executed = <<>>
    /\ ranOn = <<>>
    /\ posted = <<>>
    /\ postedTo = <<>>

Init ==
    /\ InitDocument
    /\ table = Files(MaxRows)

\* webviewPanel.webview.onDidReceiveMessage(e => this.onMessage(document, webviewPanel, e))
Receive == \E p \in 1..Len(panels) : \E m \in SampleMessages : onMessage(panels[p], p, m)
Complete == \E c \in calls : EngineComplete(c)
Dispose == \E d \in 1..Len(uri) : dispose(d)

Next == Receive \/ Complete \/ Dispose

Spec == Init /\ [][Next]_vars

\* the engine completes every call it is given
FairSpec == Spec /\ WF_vars(Complete)

\* ---------------------------------------------------------------- SessionSpec
\* One panel used as the webview uses it: a query, then fetch-more requests
\* for that query's sql and limit, one request outstanding at a time.
InitSession ==
    /\ InitDocument
    /\ table \in {Files(n) : n \in 0..MaxRows}

SessionQuery ==
    /\ requests = <<>>
    /\ \E sql \in SqlInputs, limit \in Limits : onMessage(panels[1], 1, QueryMsg(sql, limit))

SessionMore ==
    /\ requests # <<>>
    /\ calls = {}
    /\ \E offset \in Offsets :
          onMessage(panels[1], 1, MoreMsg(requests[1].sql, requests[1].limit, offset))

NextSession == SessionQuery \/ SessionMore \/ Complete

SessionSpec == InitSession /\ [][NextSession]_vars

\* ---------------------------------------------------------------- ProviderSpec
\* The provider with several documents: each is opened over a location, with
\* or without a backup, gets its panel, and the panels send requests.
OpenInputs ==
    {<<u, b>> : u \in {OriginalA, OriginalB}, b \in {NoBackup, Backup(UriText(BackupUri))}}
ProviderMessages == {QueryMsg(<<"q">>, 2), MoreMsg(<<"q">>, 2, 1)}

InitProvider ==
    /\ opened = <<>>
    /\ uri = <<>>
    /\ docState = <<>>
    /\ db = <<>>
    /\ disposed = <<>>
    /\ disposeCalls = <<>>
    /\ delivered = <<>>
    /\ panels = <<>>
    /\ table = Files(MaxRows)
    /\ requests = <<>>
    /\ origin = <<>>
    /\ calls = {}
    /\ executed = <<>>
    /\ ranOn = <<>>
    /\ posted = <<>>
    /\ postedTo = <<>>

\* the host opens one editor at a time: a document gets its panel before the
\* next one is opened
Open ==
    /\ Len(panels) = Len(uri)
    /\ \E o \in OpenInputs : openCustomDocument(o[1], o[2])
Resolve == \E d \in 1..Len(uri) : resolveCustomEditor(d)
ReceiveOn ==
    \E p \in 1..Len(panels) : \E m \in ProviderMessages : onMessage(panels[p], p, m)

NextProvider == Open \/ Resolve \/ ReceiveOn \/ Complete

ProviderSpec == InitProvider /\ [][NextProvider]_vars

\* ---------------------------------------------------------------- claims
Ids == 1..Len(requests)
InFlight(id) == \E c \in calls : c.id = id
Answered(id) == id \in Ids /\ posted[id] # <<>>
Succeeded(id) == Answered(id) /\ posted[id][1].success
Failed(id) == Answered(id) /\ ~posted[id][1].success

\* a describe statement as the specification words it: leading and trailing
\* whitespace trimmed, letter case ignored
IsDescribeStatement(sql) == startsWith(toLowerCase(trim(sql)), Describe)

\* the statements of request id that are not its validation pass
FetchStatements(id) ==
    {executed[id][i] : i \in {j \in 1..Len(executed[id]) : ~IsExplainStmt(executed[id][j])}}

\* the rows of the file behind the Document that received request id
RowsFor(id) == table[db[origin[id].doc].file]

ValidationOf(id) == EngineAll(explainSql(requests[id].sql), RowsFor(id))

\* C1: when the EXPLAIN pass of a runQuery returns an error, the EXPLAIN
\* statement is the only statement runQuery ever hands to the engine, and once
\* that call has completed the one message posted is {type: 'query',
\* success: false, message: <the validation error's text>}.
C1_ValidationFailureStops ==
    \A id \in Ids :
        (requests[id].type = "query" /\ ~ValidationOf(id).ok) =>
            /\ executed[id] = <<explainSql(requests[id].sql)>>
            /\ posted[id] \in {<<>>, <<FailureMessage("query", ValidationOf(id).err)>>}
            /\ (posted[id] = <<>>) = InFlight(id)

C1_Witness ==
    \E id \in Ids :
        /\ requests[id].type = "query"
        /\ ~ValidationOf(id).ok
        /\ Failed(id)

\* C2: for every statement that is not a describe statement the statement
\* sent to the engine to fetch rows is SELECT * FROM ( <sql with ALL
\* semicolons removed> ) LIMIT <limit> OFFSET <offset>.
C2_AllSemicolonsStripped ==
    \A id \in Ids :
        ~IsDescribeStatement(requests[id].sql) =>
            \A stmt \in FetchStatements(id) :
                /\ stmt = Wrapped(replaceAll(requests[id].sql, ";"),
                                  requests[id].limit, requests[id].offset)
                /\ ";" \notin Chars(InnerOf(stmt))

\* C3: for every statement that begins with 'describe' once trimmed and
\* lower-cased, the statement sent to the engine to fetch rows is exactly the
\* original sql, whatever the limit and offset.
C3_DescribeIsVerbatim ==
    \A id \in Ids :
        IsDescribeStatement(requests[id].sql) =>
            \A stmt \in FetchStatements(id) : stmt = requests[id].sql

\* C4: no successful response posted to the panel, of kind 'query' or 'more',
\* holds a bigint cell.
C4_NoBigIntPosted ==
    \A id \in Ids :
        \A i \in 1..Len(posted[id]) :
            posted[id][i].success => ~HasBigInt(posted[id][i].results)

\* C5: after a successful runQuery(sql, limit), fetchMore(sql, limit, 0) on
\* the same Document answers with the very result set runQuery returned.
C5_FetchMoreAtZeroRepeatsQuery ==
    \A id \in Ids :
        (/\ Succeeded(1)
         /\ requests[1].type = "query"
         /\ requests[id].type = "more"
         /\ requests[id].sql = requests[1].sql
         /\ requests[id].limit = requests[1].limit
         /\ requests[id].offset = 0
         /\ Answered(id)) =>
            /\ posted[id][1].success
            /\ posted[id][1].results = posted[1][1].results

\* C6: for a non-describe statement whose full result has n rows, every
\* answered request is answered with success and rows [offset, min(offset +
\* limit, n)) of the full result, in order (offset 0 for runQuery); cells are
\* compared by value, so the bigint-to-number conversion does not count.
C6_PagesAreSlices ==
    \A id \in Ids :
        (/\ requests[id].type \in {"query", "more"}
         /\ ~IsDescribeStatement(requests[id].sql)
         /\ EngineAll(requests[id].sql, RowsFor(id)).ok
         /\ Answered(id)) =>
            /\ posted[id][1].success
            /\ cleanResults(posted[id][1].results) =
                 cleanResults(Page(EngineAll(requests[id].sql, RowsFor(id)).rows,
                                   requests[id].limit, requests[id].offset))

\* C7: every message posted by runQuery or fetchMore has exactly one of
\* message/results: results and no message when success is true, message and
\* no results when success is false.
C7_ExactlyOneOfMessageResults ==
    \A id \in Ids :
        \A i \in 1..Len(posted[id]) :
            DOMAIN posted[id][i] =
                IF posted[id][i].success THEN {"type", "success", "results"}
                ELSE {"type", "success", "message"}

C7_Witness == \E a, b \in Ids : Succeeded(a) /\ Failed(b)

\* C8: every 'query' or 'more' request is eventually answered by exactly one
\* posted message, of the request's kind, whether the engine succeeds or
\* fails; no request is answered twice.
C8_ExactlyOneResponse ==
    /\ [](\A id \in Ids :
            /\ Len(posted[id]) <= 1
            /\ \A i \in 1..Len(posted[id]) : posted[id][i].type = requests[id].type)
    /\ \A id \in 1..MaxRequests :
            (id \in Ids /\ requests[id].type \in {"query", "more"})
                ~> (id \in Ids /\ Len(posted[id]) = 1 /\ ~InFlight(id))

C8_Witness ==
    \E a, b \in Ids :
        /\ requests[a].type = "query" /\ Failed(a) /\ Len(posted[a]) = 1
        /\ requests[b].type = "more" /\ Succeeded(b) /\ Len(posted[b]) = 1
        /\ calls = {}

\* what a request is answered with on a Document that has seen nothing else
AnswerOf(message, tbl) ==
    IF message.type = "query" THEN
        IF ~EngineAll(explainSql(message.sql), tbl).ok
        THEN FailureMessage("query", EngineAll(explainSql(message.sql), tbl).err)
        ELSE IF ~EngineAll(formatSql(message.sql, message.limit, 0), tbl).ok
        THEN FailureMessage("query", EngineAll(formatSql(message.sql, message.limit, 0), tbl).err)
        ELSE SuccessMessage("query",
                 cleanResults(EngineAll(formatSql(message.sql, message.limit, 0), tbl).rows))
    ELSE
        IF ~EngineAll(formatSql(message.sql, message.limit, message.offset), tbl).ok
        THEN FailureMessage("more",
                 EngineAll(formatSql(message.sql, message.limit, message.offset), tbl).err)
        ELSE SuccessMessage("more",
                 EngineAll(formatSql(message.sql, message.limit, message.offset), tbl).rows)

\* a step that posts a failed response for request id
PostsFailure(id) ==
    /\ Len(posted'[id]) = Len(posted[id]) + 1
    /\ ~posted'[id][Len(posted'[id])].success

\* C9: a step that posts a failed response changes nothing of the Document
\* (state, handle, view, file) and starts no engine call, so the failed
\* statement is not retried; a failed request has no call in flight any more;
\* and every request, whatever failed before it, is answered with what a
\* Document that never saw the other requests answers.
C9_FailureLeavesDocument ==
    /\ [][\A id \in Ids :
            PostsFailure(id) =>
                /\ UNCHANGED <<docVars, requests, executed>>
                /\ calls' \subseteq calls
                /\ \A c \in calls' : c.id # id]_vars
    /\ [](\A id \in Ids :
            /\ Failed(id) => ~InFlight(id)
            /\ Answered(id) => posted[id] = <<AnswerOf(requests[id], RowsFor(id))>>)

C9_Witness ==
    \E a, b \in Ids :
        /\ a < b
        /\ Failed(a)
        /\ Succeeded(b)
        /\ docState[origin[b].doc] = "Open"
        /\ db[origin[b].doc] = OpenedDb(1, OriginalA)

\* a step in which onMessage receives a message of an unrecognized kind
ReceivesUnknown ==
    /\ Len(requests') = Len(requests) + 1
    /\ requests'[Len(requests')].type \notin {"query", "more"}

\* C10: receiving a message whose kind is neither 'query' nor 'more' starts no
\* engine call, posts nothing and leaves the Document unchanged; nothing is
\* ever executed or posted for it.
C10_UnknownKindIgnored ==
    /\ [][ReceivesUnknown =>
            /\ UNCHANGED <<docVars, calls>>
            /\ executed' = Append(executed, <<>>)
            /\ posted' = Append(posted, <<>>)]_vars
    /\ [](\A id \in Ids :
            requests[id].type \notin {"query", "more"} =>
                posted[id] = <<>> /\ executed[id] = <<>> /\ ~InFlight(id))

C10_Witness ==
    \E a, b \in Ids :
        /\ a < b
        /\ requests[a].type = "other"
        /\ Succeeded(b)

Docs == 1..Len(uri)
DocOf(id) == origin[id].doc
CallsOf(id) == {c \in calls : c.id = id}

C12_DisposedHandleClosed ==
    \A d \in Docs : docState[d] = "Disposed" => ~db[d].open

\* C13 as stated: at most one engine statement is in flight at any time.
C13_OneStatementInFlight == Cardinality(calls) <= 1

\* C13, amended: each request has at most one statement in flight (the
\* bounded statement of a runQuery is started only once its EXPLAIN has
\* completed), and the statements in flight are at most as many as the
\* query/more requests not yet answered; different requests are not serialized.
C13_OneStatementPerRequest ==
    /\ \A id \in Ids : Cardinality(CallsOf(id)) <= 1
    /\ Cardinality(calls) =
         Cardinality({id \in Ids : requests[id].type \in {"query", "more"}
                                    /\ posted[id] = <<>>})

C13_Witness ==
    \E a, b \in Ids : a # b /\ DocOf(a) = DocOf(b) /\ InFlight(a) /\ InFlight(b)

\* a step that hands a statement of request id to the engine
StartsExecution(id) ==
    \/ id > Len(executed) /\ executed'[id] # <<>>
    \/ id <= Len(executed) /\ Len(executed'[id]) > Len(executed[id])

\* C14 as stated: no engine execution is started for a Document that is
\* Disposed.
C14_NoExecutionWhenDisposed ==
    [][\A id \in 1..Len(executed') :
          StartsExecution(id) => docState[origin'[id].doc] = "Open"]_vars

\* the statements a request hands to the engine, in order
StatementsOf(id) ==
    IF requests[id].type = "query" THEN
        IF ValidationOf(id).ok
        THEN <<explainSql(requests[id].sql),
               formatSql(requests[id].sql, requests[id].limit, 0)>>
        ELSE <<explainSql(requests[id].sql)>>
    ELSE IF requests[id].type = "more" THEN
        <<formatSql(requests[id].sql, requests[id].limit, requests[id].offset)>>
    ELSE <<>>

\* C14, amended: a Document goes from Open to Disposed and never back, but
\* nothing in runQuery or fetchMore looks at that state: whether or not the
\* Document is Disposed, a request hands the engine the same statements, the
\* bounded statement of a runQuery whose validation completed after disposal
\* included.
C14_LifecycleWithoutGuard ==
    /\ [][\A d \in Docs : docState[d] = "Disposed" => docState'[d] = "Disposed"]_vars
    /\ [](\A d \in Docs : (docState[d] = "Disposed") = (disposeCalls[d] > 0))
    /\ [](\A id \in Ids :
            /\ Len(executed[id]) <= Len(StatementsOf(id))
            /\ executed[id] = SubSeq(StatementsOf(id), 1, Len(executed[id]))
            /\ ~InFlight(id) => executed[id] = StatementsOf(id))

C14_Witness ==
    \E id \in Ids :
        /\ requests[id].type = "query"
        /\ docState[DocOf(id)] = "Disposed"
        /\ \E c \in calls : c.id = id /\ c.stage = "bounded"

\* C15: dispose() cancels nothing: the calls in flight are the same after it,
\* and a request in flight on a Disposed Document is still answered, once.
C15_DisposeDoesNotCancel ==
    /\ [][(\E d \in Docs : disposeCalls'[d] > disposeCalls[d]) =>
            (calls' = calls /\ posted' = posted /\ executed' = executed)]_vars
    /\ \A id \in 1..MaxRequests :
          (id \in Ids /\ InFlight(id) /\ docState[DocOf(id)] = "Disposed")
              ~> (id \in Ids /\ ~InFlight(id) /\ Len(posted[id]) = 1
                  /\ docState[DocOf(id)] = "Disposed")

C15_Witness ==
    \E a, b \in Ids :
        /\ docState[DocOf(a)] = "Disposed"
        /\ Answered(a)
        /\ DocOf(b) = DocOf(a)
        /\ InFlight(b)

\* C16: the handles of two Documents differ; every statement of a request
\* received from a panel is handed to the handle of the Document that panel is
\* bound to, its answer is computed from that Document's file, and every
\* message for it is posted to that same panel.
C16_DocumentsIsolated ==
    /\ \A d1, d2 \in Docs : d1 # d2 => db[d1].handle # db[d2].handle
    /\ \A id \in Ids :
          /\ DocOf(id) = panels[origin[id].panel]
          /\ Len(ranOn[id]) = Len(executed[id])
          /\ \A i \in 1..Len(ranOn[id]) : ranOn[id][i] = db[panels[origin[id].panel]].handle
          /\ Len(postedTo[id]) = Len(posted[id])
          /\ \A i \in 1..Len(postedTo[id]) : postedTo[id][i] = origin[id].panel
          /\ Answered(id) =>
                posted[id] = <<AnswerOf(requests[id], table[db[panels[origin[id].panel]].file])>>

C16_Witness ==
    \E a, b \in Ids :
        /\ DocOf(a) # DocOf(b)
        /\ db[DocOf(a)].file # db[DocOf(b)].file
        /\ Succeeded(a)
        /\ Succeeded(b)

\* C17: a Document opened with a backup identifier is over the backup's
\* location, one opened without is over the original location; its view reads
\* the file at that location; and neither ever changes.
C17_OpenedOverChosenLocation ==
    /\ Len(opened) = Len(uri)
    /\ \A d \in Docs :
          /\ IF opened[d].backupId.isString
             THEN UriText(uri[d]) = opened[d].backupId.text
             ELSE uri[d] = opened[d].uri
          /\ db[d].file = uri[d].path
          /\ db[d].view = "data"

C17_Witness ==
    \E d1, d2 \in Docs :
        /\ opened[d1].backupId.isString
        /\ uri[d1] # opened[d1].uri
        /\ ~opened[d2].backupId.isString
        /\ \E id \in Ids : DocOf(id) = d1 /\ Answered(id)

\* what the bounded statement of request id is answered with
BoundedAnswer(id) ==
    LET res == EngineAll(formatSql(requests[id].sql, requests[id].limit, 0), RowsFor(id)) IN
    IF res.ok THEN SuccessMessage("query", cleanResults(res.rows))
    ELSE FailureMessage("query", res.err)

\* C18: a runQuery whose validation succeeds hands the engine the EXPLAIN
\* statement, then, once that call has completed, the statement rewritten with
\* the request's limit and offset 0, and nothing else; nothing is posted
\* before the second call has completed, and what is posted then is the
\* outcome of the second call.
C18_ValidateThenExecute ==
    \A id \in Ids :
        (requests[id].type = "query" /\ ValidationOf(id).ok) =>
            LET e == explainSql(requests[id].sql)
                b == formatSql(requests[id].sql, requests[id].limit, 0)
            IN  \/ /\ executed[id] = <<e>>
                   /\ CallsOf(id) = {Call(id, "explain", e)}
                   /\ posted[id] = <<>>
                \/ /\ executed[id] = <<e, b>>
                   /\ CallsOf(id) = {Call(id, "bounded", b)}
                   /\ posted[id] = <<>>
                \/ /\ executed[id] = <<e, b>>
                   /\ CallsOf(id) = {}
                   /\ posted[id] = <<BoundedAnswer(id)>>

C18_Witness ==
    \E a, b \in Ids :
        /\ requests[a].type = "query" /\ ValidationOf(a).ok /\ Failed(a)
        /\ requests[b].type = "query" /\ ValidationOf(b).ok /\ Succeeded(b)

\* C19: a fetchMore hands the engine exactly one statement, the one rewritten
\* with its limit and offset, and no EXPLAIN; its one message is of type 'more'
\* and its success flag is that execution's outcome.
C19_FetchMoreExecutesOnce ==
    \A id \in Ids :
        requests[id].type = "more" =>
            LET stmt == formatSql(requests[id].sql, requests[id].limit, requests[id].offset)
                res == EngineAll(stmt, RowsFor(id))
            IN  /\ executed[id] = <<stmt>>
                /\ ~IsExplainStmt(stmt)
                /\ \/ CallsOf(id) = {Call(id, "more", stmt)} /\ posted[id] = <<>>
                   \/ /\ CallsOf(id) = {}
                      /\ Len(posted[id]) = 1
                      /\ posted[id][1].type = "more"
                      /\ posted[id][1].success = res.ok

C19_Witness ==
    \E a, b \in Ids :
        /\ requests[a].type = "more" /\ Failed(a)
        /\ requests[b].type = "more" /\ Succeeded(b)

\* a statement formatSql recognises as a describe statement
RecognisedDescribe(sql) == startsWith(toLowerCase(sql), Describe)

\* C20: for a statement recognised as a describe statement, every successful
\* answer, of runQuery or of fetchMore with any limit and offset, holds the
\* complete result of the statement: all answers are identical and no page is
\* empty.
C20_DescribeIgnoresPaging ==
    \A id \in Ids :
        (RecognisedDescribe(requests[id].sql) /\ Answered(id)) =>
            LET full == EngineAll(requests[id].sql, RowsFor(id)) IN
            /\ posted[id][1].success = full.ok
            /\ full.ok => /\ posted[id][1].results = full.rows
                          /\ posted[id][1].results # <<>>
            /\ \A other \in Ids :
                  (Succeeded(other) /\ requests[other].sql = requests[id].sql) =>
                      /\ posted[id][1].success
                      /\ posted[other][1].results = posted[id][1].results

C20_Witness ==
    \E a, b \in Ids :
        /\ RecognisedDescribe(requests[a].sql)
        /\ requests[a].type = "query" /\ Succeeded(a)
        /\ requests[b].type = "more" /\ Succeeded(b)
        /\ requests[b].offset >= Len(posted[a][1].results)

====
